---- MODULE Spec2Model ----
(***************************************************************************)
(* Model of the Sudoku solver service: the encoder that turns an 81-cell   *)
(* board into solver assertions, the two-round solve-and-uniqueness        *)
(* protocol of solveSudoku, and the mapping of its result or thrown error  *)
(* to the HTTP response, for the three copies of the service (in-process,  *)
(* debug, and process-per-request with the stand-alone solver).            *)
(***************************************************************************)
EXTENDS Integers, Sequences, FiniteSets, TLC

(***************************************************************************)
(* Program constants.                                                      *)
(***************************************************************************)
GRID_SIZE == 9

BOX_SIZE == 3

BOARD_SIZE == GRID_SIZE * GRID_SIZE

(***************************************************************************)
(* Bounds of the model.                                                    *)
(***************************************************************************)
\* The solver's integers range over (1 - IntSlack)..(GRID_SIZE + IntSlack).
IntSlack == 1

\* At most this many cells of the solved grid are blanked in an input board.
MaxBlanks == 4

IntUniverse == (1 - IntSlack)..(GRID_SIZE + IntSlack)

Indices == 0..(BOARD_SIZE - 1)

Lines == 0..(GRID_SIZE - 1)

Digits == 1..GRID_SIZE

(***************************************************************************)
(* Input boards: a solved grid with some cells blanked and one cell        *)
(* possibly overwritten.                                                   *)
(***************************************************************************)
SolvedGrid ==
  << 5,3,4,6,7,8,9,1,2,
     6,7,2,1,9,5,3,4,8,
     1,9,8,3,4,2,5,6,7,
     8,5,9,7,6,1,4,2,3,
     4,2,6,8,5,3,7,9,1,
     7,1,3,9,2,4,8,5,6,
     9,6,1,5,3,7,2,8,4,
     2,8,7,4,1,9,6,3,5,
     3,4,5,2,8,6,1,7,9 >>

Idx(row, col) == row * GRID_SIZE + col

\* Cells that an input board may leave blank: the rectangles rows 2,5 x
\* columns 4,5 (values 4,2 / 2,4) and rows 5,7 x columns 3,5 (values 9,4 /
\* 4,9) of SolvedGrid, which share the cell (5, 5).  Each lies in one stack
\* of boxes, so exchanging its two values gives another valid grid.
BlankCandidates ==
  { Idx(2, 4), Idx(2, 5), Idx(5, 4), Idx(5, 5), Idx(5, 3), Idx(7, 3), Idx(7, 5) }

\* The cell an input board may overwrite with another digit.
OverrideCell == Idx(5, 5)

\* The digits it may carry: 4 (its value in both solved grids), 2 and 9 (its
\* value once the first or the second rectangle is exchanged) and 7.
OverrideDigits == {2, 4, 7, 9}

\* The solved grids the input boards are cut from: SolvedGrid and its
\* transpose.
BaseGrids ==
  { [i \in Indices |-> SolvedGrid[i + 1]],
    [i \in Indices |-> SolvedGrid[Idx(i % GRID_SIZE, i \div GRID_SIZE) + 1]] }

BoardOf(base, blanks, ov) ==
  [i \in Indices |->
     IF i \in blanks THEN 0
     ELSE IF i = OverrideCell THEN ov
     ELSE base[i]]

Boards ==
  { BoardOf(base, blanks, ov) :
      base \in BaseGrids,
      blanks \in { b \in SUBSET BlankCandidates : Cardinality(b) <= MaxBlanks },
      ov \in OverrideDigits }

(***************************************************************************)
(* z3 expressions.  A variable is identified by its name: z3.Int(name)     *)
(* called twice with one name denotes one variable.                        *)
(***************************************************************************)
CellName(row, col) == << "x", row, col >>

IntVar(name) == [op |-> "var", name |-> name]

IntVal(value) == [op |-> "num", val |-> value]

Ge(a, b) == [op |-> "ge", args |-> << a, b >>]

Le(a, b) == [op |-> "le", args |-> << a, b >>]

Eq(a, b) == [op |-> "eq", args |-> << a, b >>]

Not(e) == [op |-> "not", args |-> << e >>]

Or(es) == [op |-> "or", args |-> es]

Distinct(es) == [op |-> "distinct", args |-> es]

\* The value of a term under an assignment of the variables.
TermVal(t, m) == IF t.op = "num" THEN t.val ELSE m[t.name]

AllDifferent(es, m) ==
  \A i \in 1..Len(es) : \A j \in 1..Len(es) :
     i < j => TermVal(es[i], m) # TermVal(es[j], m)

RECURSIVE Holds(_, _)
\* Truth of a boolean expression under an assignment.
Holds(e, m) ==
  CASE e.op = "ge" -> TermVal(e.args[1], m) >= TermVal(e.args[2], m)
    [] e.op = "le" -> TermVal(e.args[1], m) <= TermVal(e.args[2], m)
    [] e.op = "eq" -> TermVal(e.args[1], m) = TermVal(e.args[2], m)
    [] e.op = "not" -> ~Holds(e.args[1], m)
    [] e.op = "or" -> \E i \in 1..Len(e.args) : Holds(e.args[i], m)
    [] e.op = "distinct" -> AllDifferent(e.args, m)

Satisfies(m, assertions) ==
  \A k \in 1..Len(assertions) : Holds(assertions[k], m)

(***************************************************************************)
(* The decision procedure of the backend, by its contract: check() answers *)
(* sat with a model that satisfies every assertion, unsat when no          *)
(* assignment does, or unknown when it gives up.                           *)
(***************************************************************************)
RECURSIVE VarsOf(_)
VarsOf(e) ==
  IF e.op = "var" THEN {e.name}
  ELSE IF e.op = "num" THEN {}
  ELSE UNION { VarsOf(e.args[i]) : i \in 1..Len(e.args) }

VarsOfAll(assertions) ==
  UNION { VarsOf(assertions[k]) : k \in 1..Len(assertions) }

\* An assertion that bounds one variable by a numeral.
IsBound(e) ==
  /\ e.op \in {"ge", "le", "eq"}
  /\ e.args[1].op = "var"
  /\ e.args[2].op = "num"

\* The domains doms cut down by the assertion e, when e is a bound.
NarrowBy(doms, e) ==
  IF IsBound(e)
  THEN LET x == e.args[1].name
       IN [doms EXCEPT ![x] = { v \in @ : Holds(e, (x :> v)) }]
  ELSE doms

RECURSIVE Narrow(_, _, _, _)
\* The domains doms cut down by the bounds among assertions[lo..hi].
Narrow(doms, assertions, lo, hi) ==
  IF lo > hi THEN doms
  ELSE IF lo = hi THEN NarrowBy(doms, assertions[lo])
  ELSE LET mid == (lo + hi) \div 2
           left == Narrow(doms, assertions, lo, mid)
       IN IF DOMAIN left = {} THEN left  \* no variable: nothing to cut down
          ELSE Narrow(left, assertions, mid + 1, hi)

\* The variables that share a Distinct assertion with x.
PeersOf(x, assertions) ==
  UNION { { e.args[i].name : i \in { j \in 1..Len(e.args) : e.args[j].op = "var" } }
            : e \in { assertions[k] : k \in
                        { n \in 1..Len(assertions) :
                            /\ assertions[n].op = "distinct"
                            /\ \E i \in 1..Len(assertions[n].args) :
                                  assertions[n].args[i] = IntVar(x) } } } \ {x}

RECURSIVE FixedAssignment(_, _)
\* The assignment of the variables whose domain is a single value.
FixedAssignment(xs, doms) ==
  IF xs = {} THEN << >>
  ELSE LET x == CHOOSE y \in xs : TRUE
           v == CHOOSE w \in doms[x] : TRUE
       IN (x :> v) @@ FixedAssignment(xs \ {x}, doms)

RECURSIVE Extend(_, _, _, _)
\* Every extension of the partial assignment p to the variables todo that
\* keeps each variable in its domain and differs from its assigned peers.
Extend(p, todo, doms, assertions) ==
  IF todo = {} THEN {p}
  ELSE LET x == CHOOSE y \in todo : TRUE
           peers == PeersOf(x, assertions) \cap DOMAIN p
           cands == { v \in doms[x] : \A y \in peers : p[y] # v }
       IN UNION { Extend((x :> v) @@ p, todo \ {x}, doms, assertions) : v \in cands }

\* All assignments over IntUniverse that satisfy every assertion.
Models(assertions) ==
  LET vars == VarsOfAll(assertions)
      doms == Narrow([x \in vars |-> IntUniverse] @@ << >>, assertions, 1, Len(assertions))
      free == { x \in vars : Cardinality(doms[x]) # 1 }
  IN { m \in Extend(FixedAssignment(vars \ free, doms), free, doms, assertions) :
         Satisfies(m, assertions) }

(***************************************************************************)
(* The encoder: the assertions solveSudoku adds before the first check.    *)
(***************************************************************************)
\* The concatenation of ss[lo], ..., ss[hi], by halves.
RECURSIVE FlattenRange(_, _, _)
FlattenRange(ss, lo, hi) ==
  IF lo > hi THEN << >>
  ELSE IF lo = hi THEN ss[lo]
  ELSE FlattenRange(ss, lo, (lo + hi) \div 2) \o
         FlattenRange(ss, (lo + hi) \div 2 + 1, hi)

Flatten(ss) == FlattenRange(ss, 1, Len(ss))

\* cells[i], pushed in row-major order.
Cells == [i \in Indices |-> IntVar(CellName(i \div GRID_SIZE, i % GRID_SIZE))]

\* Mutant: the given is read at the transposed position.
GivenIndex_Transposed(row, col) == col * GRID_SIZE + row

\* Position of the given of cell (row, col) in the board.
GivenIndex(row, col) == row * GRID_SIZE + col

\* Mutant: the upper bound of the range is missing.
RangeConstraints_NoUpper(cell) == << Ge(cell, IntVal(1)) >>

\* The range assertions of one cell.
RangeConstraints(cell) == << Ge(cell, IntVal(1)), Le(cell, IntVal(9)) >>

\* The assertions added for one cell: its range and, for a non-zero given,
\* equality with the given.
\* Mutant: a zero entry is asserted as a clue too.
CellConstraints_ZeroClue(board, row, col) ==
  LET cell == IntVar(CellName(row, col))
      given == board[GivenIndex(row, col)]
  IN RangeConstraints(cell) \o << Eq(cell, IntVal(given)) >>

CellConstraints(board, row, col) ==
  LET cell == IntVar(CellName(row, col))
      given == board[GivenIndex(row, col)]
  IN RangeConstraints(cell) \o
       (IF given # 0 THEN << Eq(cell, IntVal(given)) >> ELSE << >>)

CellLoop(board) ==
  Flatten([k \in 1..BOARD_SIZE |->
             CellConstraints(board, (k - 1) \div GRID_SIZE, (k - 1) % GRID_SIZE)])

RowCells(row) == [k \in 1..GRID_SIZE |-> Cells[row * GRID_SIZE + (k - 1)]]

\* Mutant: the column loop indexes cells as the row loop does.
ColCells_AsRow(col) == [k \in 1..GRID_SIZE |-> Cells[col * GRID_SIZE + (k - 1)]]

ColCells(col) == [k \in 1..GRID_SIZE |-> Cells[(k - 1) * GRID_SIZE + col]]

\* Mutant: the column of a box is computed from its row index.
BoxCells_RowForCol(boxRow, boxCol) ==
  [k \in 1..(BOX_SIZE * BOX_SIZE) |->
     LET row == (k - 1) \div BOX_SIZE
         col == (k - 1) % BOX_SIZE
         r == boxRow * BOX_SIZE + row
         c == boxRow * BOX_SIZE + col
     IN Cells[r * GRID_SIZE + c]]

BoxCells(boxRow, boxCol) ==
  [k \in 1..(BOX_SIZE * BOX_SIZE) |->
     LET row == (k - 1) \div BOX_SIZE
         col == (k - 1) % BOX_SIZE
         r == boxRow * BOX_SIZE + row
         c == boxCol * BOX_SIZE + col
     IN Cells[r * GRID_SIZE + c]]

RowConstraints == [k \in 1..GRID_SIZE |-> Distinct(RowCells(k - 1))]

ColConstraints == [k \in 1..GRID_SIZE |-> Distinct(ColCells(k - 1))]

BoxConstraints ==
  [k \in 1..(BOX_SIZE * BOX_SIZE) |->
     Distinct(BoxCells((k - 1) \div BOX_SIZE, (k - 1) % BOX_SIZE))]

\* Everything asserted before the first check, in the order it is added.
Encode(board) ==
  CellLoop(board) \o RowConstraints \o ColConstraints \o BoxConstraints

(***************************************************************************)
(* Reading a value back: model.evaluate(cell), toString(), parseInt.       *)
(***************************************************************************)
NoModel == << "no model" >>

DigitChars == << "0", "1", "2", "3", "4", "5", "6", "7", "8", "9" >>

RECURSIVE NatToString(_)
NatToString(n) ==
  IF n < 10 THEN << DigitChars[n + 1] >>
  ELSE NatToString(n \div 10) \o << DigitChars[(n % 10) + 1] >>

\* The text of a z3 term: a numeral in decimal, a variable by its name.
ExprToString(e) ==
  IF e.op = "num"
  THEN IF e.val < 0 THEN << "-" >> \o NatToString(0 - e.val)
       ELSE NatToString(e.val)
  ELSE << "x", "_" >> \o NatToString(e.name[2]) \o << "_" >>
         \o NatToString(e.name[3])

\* model.evaluate(expr) without model completion: the value of a variable
\* the model interprets, the variable itself otherwise.
Evaluate(m, e) ==
  IF e.op = "var" /\ m # NoModel /\ e.name \in DOMAIN m
  THEN IntVal(m[e.name])
  ELSE e

IsDigitChar(ch) == \E d \in 1..10 : DigitChars[d] = ch

DigitVal(ch) == (CHOOSE d \in 1..10 : DigitChars[d] = ch) - 1

RECURSIVE ParseDigits(_, _, _)
\* The longest prefix of digits of s, read in base 10; seen says whether a
\* digit was read.
ParseDigits(s, acc, seen) ==
  IF s = << >> \/ ~IsDigitChar(Head(s))
  THEN [finite |-> seen, val |-> acc]
  ELSE ParseDigits(Tail(s), acc * 10 + DigitVal(Head(s)), TRUE)

\* Number.parseInt(text, 10): an optional sign, then digits; NaN (finite
\* FALSE) when no digit follows.
ParseInt(s) ==
  IF s # << >> /\ Head(s) = "-"
  THEN LET r == ParseDigits(Tail(s), 0, FALSE)
       IN [finite |-> r.finite, val |-> 0 - r.val]
  ELSE ParseDigits(s, 0, FALSE)

(***************************************************************************)
(* One solve request.                                                      *)
(***************************************************************************)
VARIABLES
  variant,      \* which copy of the service handles the request
  board,        \* the validated board
  pc,           \* where the request is
  assertions,   \* what the request's solver holds, in the order added
  result,       \* answer of the first check
  model,        \* the model of the first check
  solution,     \* the values read back, row-major
  nextResult,   \* answer of the second check
  ret,          \* what solveSudoku returned
  thrown,       \* what solveSudoku (or solveSudokuInProcess) threw
  output,       \* what the solver process wrote to stdout
  response,     \* the HTTP response
  steps,        \* the solver operations performed so far, in order
  payload,      \* the request body as it arrived
  aborted,      \* req.signal.aborted
  listening,    \* abortHandler is registered on the signal
  spawned,      \* a solver process has been spawned for the request
  killSent,     \* process.kill("SIGTERM") has been called
  exitCode,     \* exit code of the solver process
  fault,        \* what went wrong in the solver's environment, if anything
  reqs,         \* concurrent requests: one record per request
  solvers,      \* concurrent requests: the assertions of each solver context
  inputCells,      \* page: the values of the input grid, 0 for an empty cell
  errorCells,      \* page: the input cells that carry the class "error"
  solutionCells,   \* page: the values of the solution grid, 0 for empty
  statusEl,        \* page: the status line
  solveBtn,        \* page: solveBtn.textContent
  clearBtn,        \* page: clearBtn.disabled
  inputDisabled,   \* page: input.disabled of the input cells
  abortController, \* page: the request abortController stands for, or null
  fetches,         \* page: the calls of solveSudoku that sent a request
  demoPc,          \* boolean demo: position in the script
  demoSolver,      \* boolean demo: the assertions of its solver
  solutionCount,   \* boolean demo: let solutionCount
  consoleLog,      \* boolean demo: the assignments printed by the loop
  demoResult       \* boolean demo: answer of the latest check

\* The state of one request's solve, of the service around it, and of
\* the concurrent requests.
solveVars ==
  << variant, board, pc, assertions, result, model, solution, nextResult,
     ret, thrown, output, response, steps >>

serviceVars ==
  << payload, aborted, listening, spawned, killSent, exitCode, fault >>

concVars == << reqs, solvers >>

\* The state of the browser page and of the boolean demo script.
uiVars ==
  << inputCells, errorCells, solutionCells, statusEl, solveBtn, clearBtn,
     inputDisabled, abortController, fetches >>

demoVars == << demoPc, demoSolver, solutionCount, consoleLog, demoResult >>

vars == << solveVars, serviceVars, concVars, uiVars, demoVars >>

Variants == {"inproc", "debug", "process"}

None == [written |-> FALSE]

\* Nothing returned, nothing thrown, no response yet.
NoReturn == [solution |-> << >>, solutionCount |-> 0]

NoError == [name |-> "none", message |-> ""]

NoResponse == [status |-> 0, body |-> << >>]

(***************************************************************************)
(* Request bodies.  A body is text that either parses as JSON or does not; *)
(* a JSON number is kept in halves so that Number.isInteger has something  *)
(* to reject (3 halves is 1.5).                                            *)
(***************************************************************************)
JsonNumber(halves) == [type |-> "number", halves |-> halves]

JsonString == [type |-> "string"]

JsonNull == [type |-> "null"]

JsonArray(items) == [type |-> "array", items |-> items]

\* An object carries its `board` property, or Undefined when it has none.
Undefined == [type |-> "undefined"]

JsonObject(boardValue) == [type |-> "object", board |-> boardValue]

\* The body of a request: req.json() rejects text that is not JSON.
Body(value) == [wellFormed |-> TRUE, value |-> value]

NotJson == [wellFormed |-> FALSE, value |-> Undefined]

\* JSON.stringify({ board }) of the browser: one number per cell.
BoardItems(b) == [k \in 1..BOARD_SIZE |-> JsonNumber(2 * b[k - 1])]

BoardPayload(b) == Body(JsonObject(JsonArray(BoardItems(b))))

(***************************************************************************)
(* The browser page and the boolean demo before anything has happened.     *)
(***************************************************************************)
SUBGRID_SIZE == 3

\* A grid of empty cells.
EmptyGrid == [i \in Indices |-> << >>]

\* setStatus(message, type): the text and the class of the status line.
Status(message, type) ==
  [textContent |-> message,
   className |-> IF type = "null" THEN "status" ELSE "status " \o type]

\* The page once its script has run: no request yet, and clearBoard() has
\* emptied both grids and the status line.  The document is taken to show
\* the controls as setLoading(false) leaves them.
PageLoaded ==
  /\ inputCells = EmptyGrid
  /\ errorCells = {}
  /\ solutionCells = EmptyGrid
  /\ statusEl = Status("", "null")
  /\ solveBtn = "Solve"
  /\ clearBtn = FALSE
  /\ inputDisabled = FALSE
  /\ abortController = 0
  /\ fetches = << >>

\* The demo once its solver has been created.
DemoStart ==
  /\ demoPc = "Start"
  /\ demoSolver = {}
  /\ solutionCount = 0
  /\ consoleLog = << >>
  /\ demoResult = "none"

Init ==
  /\ variant \in Variants
  /\ board \in Boards
  /\ pc = "Init"
  /\ assertions = << >>
  /\ result = "none"
  /\ model = NoModel
  /\ solution = << >>
  /\ nextResult = "none"
  /\ ret = NoReturn
  /\ thrown = NoError
  /\ output = None
  /\ response = NoResponse
  /\ steps = << >>
  /\ payload = BoardPayload(board)
  /\ aborted = FALSE
  /\ listening = (variant = "process")
  /\ spawned = (variant = "process")
  /\ killSent = FALSE
  /\ exitCode = 0
  /\ fault = "none"
  /\ reqs = << >>
  /\ solvers = << >>
  /\ PageLoaded
  /\ DemoStart

\* The state above is the one in which solveSudoku is entered: the request
\* has passed validation, and in the process-per-request copy the solver
\* process has been spawned and has read the board from stdin.

\* Init -> Encoded: a fresh solver, then every assertion of the encoder.
EncodeBoard ==
  /\ pc = "Init"
  /\ assertions' = Encode(board)
  /\ steps' = Append(steps, "encode")
  /\ pc' = "Encoded"
  /\ UNCHANGED << variant, board, result, model, solution, nextResult, ret,
                  thrown, output, response >>
  /\ UNCHANGED << serviceVars, concVars, uiVars, demoVars >>

\* What solver.check() may answer, with the model it then holds.
CheckOutcomes(as) ==
  LET ms == Models(as)
  IN {[result |-> "unknown", model |-> NoModel]} \cup
       (IF ms = {} THEN {[result |-> "unsat", model |-> NoModel]}
        ELSE {[result |-> "sat", model |-> m] : m \in ms})

\* Encoded -> FirstChecked: const result = solver.check().
FirstCheck ==
  /\ pc = "Encoded"
  /\ \E o \in CheckOutcomes(assertions) :
       /\ result' = o.result
       /\ model' = o.model
  /\ steps' = Append(steps, "check")
  /\ pc' = "FirstChecked"
  /\ UNCHANGED << variant, board, assertions, solution, nextResult, ret,
                  thrown, output, response >>
  /\ UNCHANGED << serviceVars, concVars, uiVars, demoVars >>

\* Mutant: only unsat counts as a failed check.
IsSat_NotUnsat(r) == r # "unsat"

\* result.toString() === "sat"
IsSat(r) == r = "sat"

\* The error thrown when the first check is not sat.
NoSolutionError(v) ==
  IF v = "process"
  THEN [name |-> "Error", message |-> "Sudoku has no solution."]
  ELSE [name |-> "SudokuUnsolvableError", message |-> "Sudoku has no solution."]

\* FirstChecked -> Thrown: if (result.toString() !== "sat") throw.
ThrowNoSolution ==
  /\ pc = "FirstChecked"
  /\ ~IsSat(result)
  /\ thrown' = NoSolutionError(variant)
  /\ pc' = "Thrown"
  /\ UNCHANGED << variant, board, assertions, result, model, solution,
                  nextResult, ret, output, response, steps >>
  /\ UNCHANGED << serviceVars, concVars, uiVars, demoVars >>

\* Mutant: the cells are read column by column.
ExtractValue_ColumnMajor(m, i) ==
  ParseInt(ExprToString(Evaluate(m, Cells[(i % GRID_SIZE) * GRID_SIZE + i \div GRID_SIZE])))

\* The value pushed for cell i: parseInt of the text of its evaluation.
ExtractValue(m, i) == ParseInt(ExprToString(Evaluate(m, Cells[i])))

\* FirstChecked -> SolutionExtracted: solver.model(), then one value per
\* cell in row-major order; a value that does not parse throws.
Extract ==
  /\ pc = "FirstChecked"
  /\ IsSat(result)
  /\ steps' = Append(steps, "model")
  /\ IF model = NoModel
     THEN /\ thrown' = [name |-> "Error", message |-> "model is not available"]
          /\ pc' = "Thrown"
          /\ UNCHANGED solution
     ELSE LET values == [i \in Indices |-> ExtractValue(model, i)]
          IN IF \E i \in Indices : ~values[i].finite
             THEN /\ thrown' = [name |-> "Error",
                                message |-> "Failed to parse solver value"]
                  /\ pc' = "Thrown"
                  /\ UNCHANGED solution
             ELSE /\ solution' = [i \in Indices |-> values[i].val]
                  /\ pc' = "SolutionExtracted"
                  /\ UNCHANGED thrown
  /\ UNCHANGED << variant, board, assertions, result, model, nextResult, ret,
                  output, response >>
  /\ UNCHANGED << serviceVars, concVars, uiVars, demoVars >>

\* Mutant: the debug copy looks the variable up under the name of the
\* transposed cell.
BlockCell_Transposed(v, i) ==
  IF v = "debug"
  THEN IntVar(CellName(i % GRID_SIZE, i \div GRID_SIZE))
  ELSE Cells[i]

\* The variable the blocking constraint uses for cell i: the handle kept
\* in cells, or (debug copy) a fresh handle made from the stored name.
BlockCell(v, i) ==
  IF v = "debug"
  THEN IntVar(CellName(i \div GRID_SIZE, i % GRID_SIZE))
  ELSE Cells[i]

\* Mutant: the negation is missing.
NotEqual_NoNot(cell, value) == Eq(cell, IntVal(value))

\* cell != value
NotEqual(cell, value) == Not(Eq(cell, IntVal(value)))

\* At least one cell must differ from the solution.
BlockConstraint(v, sol) ==
  Or([k \in 1..BOARD_SIZE |-> NotEqual(BlockCell(v, k - 1), sol[k - 1])])

\* SolutionExtracted -> BlockAdded: solver.add(z3.Or(...blockConstraints)).
AddBlock ==
  /\ pc = "SolutionExtracted"
  /\ assertions' = Append(assertions, BlockConstraint(variant, solution))
  /\ steps' = Append(steps, "block")
  /\ pc' = "BlockAdded"
  /\ UNCHANGED << variant, board, result, model, solution, nextResult, ret,
                  thrown, output, response >>
  /\ UNCHANGED << serviceVars, concVars, uiVars, demoVars >>

\* Mutant: the two counts are swapped.
SolutionCount_Swapped(next) == IF next = "sat" THEN 1 ELSE 2

\* solutionCount: 2 means "multiple", not an exact count.
SolutionCount(next) == IF next = "sat" THEN 2 ELSE 1

\* BlockAdded -> Returned: the second check, then return.
SecondCheck ==
  /\ pc = "BlockAdded"
  /\ \E r \in { o.result : o \in CheckOutcomes(assertions) } :
       /\ nextResult' = r
       /\ ret' = [solution |-> solution, solutionCount |-> SolutionCount(r)]
  /\ steps' = Append(steps, "check")
  /\ pc' = "Returned"
  /\ UNCHANGED << variant, board, assertions, result, model, solution,
                  thrown, output, response >>
  /\ UNCHANGED << serviceVars, concVars, uiVars, demoVars >>

(***************************************************************************)
(* The service around solveSudoku.                                         *)
(***************************************************************************)
JsonResponse(data, status) == [status |-> status, body |-> data]

JsonError(message, status) == JsonResponse([error |-> message], status)

\* The catch clause of handleSolveRequest.
ErrorResponse(err) ==
  IF err.name = "SudokuUnsolvableError"
  THEN JsonError("The provided Sudoku board is unsatisfiable.", 422)
  ELSE JsonError("Internal solver error.", 500)

\* Mutant: the response leaves out solutionCount.
SuccessResponse_NoCount(r) == JsonResponse([solution |-> r.solution], 200)

\* The try block of handleSolveRequest on a returned result.
SuccessResponse(r) ==
  JsonResponse([solution |-> r.solution, solutionCount |-> r.solutionCount], 200)

\* handleSolveRequest of the in-process copies: the result of solveSudoku
\* or the error it threw becomes the response.
Respond ==
  /\ variant \in {"inproc", "debug"}
  /\ pc \in {"Returned", "Thrown"}
  /\ response' = IF pc = "Returned" THEN SuccessResponse(ret)
                 ELSE ErrorResponse(thrown)
  /\ pc' = "Done"
  /\ UNCHANGED << variant, board, assertions, result, model, solution,
                  nextResult, ret, thrown, output, steps >>
  /\ UNCHANGED << serviceVars, concVars, uiVars, demoVars >>

\* main() of the solver process: the result or the message of any error is
\* written to stdout as one JSON object.
SolverOutput ==
  IF pc = "Returned"
  THEN [success |-> TRUE, solution |-> ret.solution,
        solutionCount |-> ret.solutionCount]
  ELSE [success |-> FALSE, error |-> thrown.message]

WriteOutput ==
  /\ variant = "process"
  /\ pc \in {"Returned", "Thrown"}
  /\ output' = SolverOutput
  /\ pc' = "Exited"
  /\ UNCHANGED << variant, board, assertions, result, model, solution,
                  nextResult, ret, thrown, response, steps >>
  /\ UNCHANGED << serviceVars, concVars, uiVars, demoVars >>

\* throw new DOMException("Request was aborted", "AbortError")
AbortError == [name |-> "AbortError", message |-> "Request was aborted"]

\* throw new Error(`Solver process exited with code ${code}`)
ExitCodeError == [name |-> "Error", message |-> "Solver process exited with code"]

\* solveSudokuInProcess once process.output() has resolved: an aborted
\* signal is looked at first, then the exit code, then the parsed output,
\* which is returned, or thrown as SudokuUnsolvableError when it is not a
\* success.  The finally clause unregisters abortHandler.
ReadOutput ==
  /\ variant = "process"
  /\ pc = "Exited"
  /\ IF aborted
     THEN /\ thrown' = AbortError
          /\ pc' = "ServerThrown"
          /\ UNCHANGED ret
     ELSE IF exitCode # 0
     THEN /\ thrown' = ExitCodeError
          /\ pc' = "ServerThrown"
          /\ UNCHANGED ret
     ELSE IF output.success
     THEN /\ ret' = [solution |-> output.solution,
                     solutionCount |-> output.solutionCount]
          /\ pc' = "ServerReturned"
          /\ UNCHANGED thrown
     ELSE /\ thrown' = [name |-> "SudokuUnsolvableError",
                        message |-> output.error]
          /\ pc' = "ServerThrown"
          /\ UNCHANGED ret
  /\ listening' = FALSE
  /\ UNCHANGED << variant, board, assertions, result, model, solution,
                  nextResult, output, response, steps >>
  /\ UNCHANGED << payload, aborted, spawned, killSent, exitCode, fault >>
  /\ UNCHANGED << concVars, uiVars, demoVars >>

\* Mutant: the AbortError case is missing from the catch clause.
ProcessErrorResponse_NoAbort(err) == ErrorResponse(err)

\* The catch clause of handleSolveRequest in the process-per-request copy:
\* an AbortError is answered 499 before the other two cases.
ProcessErrorResponse(err) ==
  IF err.name = "AbortError"
  THEN JsonError("Request was cancelled.", 499)
  ELSE ErrorResponse(err)

\* handleSolveRequest of the process-per-request copy.
RespondProcess ==
  /\ variant = "process"
  /\ pc \in {"ServerReturned", "ServerThrown"}
  /\ response' = IF pc = "ServerReturned" THEN SuccessResponse(ret)
                 ELSE ProcessErrorResponse(thrown)
  /\ pc' = "Done"
  /\ UNCHANGED << variant, board, assertions, result, model, solution,
                  nextResult, ret, thrown, output, steps >>
  /\ UNCHANGED << serviceVars, concVars, uiVars, demoVars >>

Next ==
  \/ EncodeBoard
  \/ FirstCheck
  \/ ThrowNoSolution
  \/ Extract
  \/ AddBlock
  \/ SecondCheck
  \/ Respond
  \/ WriteOutput
  \/ ReadOutput
  \/ RespondProcess

Spec == Init /\ [][Next]_vars

(***************************************************************************)
(* The whole request: validation of the body, the spawn of the solver      *)
(* process and its abort handling, and what the solver's environment may   *)
(* do to it.                                                               *)
(***************************************************************************)
\* Payload.board: reading a property of null throws a TypeError; values
\* other than objects have no such property.
BoardProperty(v) == IF v.type = "object" THEN v.board ELSE Undefined

\* typeof value !== "number" || !Number.isInteger(value) ||
\* value < 0 || value > 9
EntryRejected(v) ==
  \/ v.type # "number"
  \/ v.halves % 2 # 0
  \/ v.halves < 0
  \/ v.halves > 2 * GRID_SIZE

Rejected(resp) == [accepted |-> FALSE, response |-> resp, board |-> << >>]

Accepted(b) == [accepted |-> TRUE, response |-> NoResponse, board |-> b]

\* What Deno.serve answers when the handler throws.
UncaughtResponse == JsonResponse([error |-> "Internal Server Error"], 500)

\* The checks of handleSolveRequest, in order, up to the copied board.
Validation(p) ==
  IF ~p.wellFormed
  THEN Rejected(JsonError("Invalid JSON payload.", 400))
  ELSE IF p.value.type = "null"
  THEN Rejected(UncaughtResponse)
  ELSE LET b == BoardProperty(p.value)
       IN IF b.type # "array"
          THEN Rejected(JsonError("Expected board to be an array of numbers.", 400))
          ELSE IF Len(b.items) # BOARD_SIZE
          THEN Rejected(JsonError("Expected board length 81.", 400))
          ELSE IF \E k \in 1..BOARD_SIZE : EntryRejected(b.items[k])
          THEN Rejected(JsonError(
                 "Board entries must be integers in the range 0-9.", 400))
          ELSE Accepted([i \in Indices |-> b.items[i + 1].halves \div 2])

\* Boards of the whole-request specification: the solved grid, the solved
\* grid with the override cell set to 7 (two 7s in its row), and the
\* solved grid with one cell or with the first rectangle blanked.
ServiceBoards ==
  LET base == [i \in Indices |-> SolvedGrid[i + 1]]
  IN { BoardOf(base, {}, 4),
       BoardOf(base, {}, 7),
       BoardOf(base, {Idx(2, 4)}, 4),
       BoardOf(base, {Idx(2, 4), Idx(2, 5), Idx(5, 4), Idx(5, 5)}, 4) }

\* Entries the validation must reject: 10, -1, 1.5, a string, null.
BadEntries ==
  { JsonNumber(2 * (GRID_SIZE + 1)), JsonNumber(-2), JsonNumber(3),
    JsonString, JsonNull }

\* Bodies that are not a board of 81 integers in 0..9.
MalformedPayloads ==
  LET items == BoardItems([i \in Indices |-> SolvedGrid[i + 1]])
  IN { NotJson, Body(JsonNull), Body(JsonNumber(2 * 5)),
       Body(JsonArray(items)),
       Body(JsonObject(Undefined)), Body(JsonObject(JsonString)),
       Body(JsonObject(JsonArray(<< >>))),
       Body(JsonObject(JsonArray(SubSeq(items, 1, BOARD_SIZE - 1)))),
       Body(JsonObject(JsonArray(Append(items, JsonNumber(0))))) }
    \cup
     { Body(JsonObject(JsonArray([items EXCEPT ![k] = e]))) :
         k \in {1, BOARD_SIZE}, e \in BadEntries }

Payloads == MalformedPayloads \cup { BoardPayload(b) : b \in ServiceBoards }

InitService ==
  /\ variant \in Variants
  /\ payload \in Payloads
  /\ board = << >>
  /\ pc = "Received"
  /\ assertions = << >>
  /\ result = "none"
  /\ model = NoModel
  /\ solution = << >>
  /\ nextResult = "none"
  /\ ret = NoReturn
  /\ thrown = NoError
  /\ output = None
  /\ response = NoResponse
  /\ steps = << >>
  /\ aborted = FALSE
  /\ listening = FALSE
  /\ spawned = FALSE
  /\ killSent = FALSE
  /\ exitCode = 0
  /\ fault = "none"
  /\ reqs = << >>
  /\ solvers = << >>
  /\ PageLoaded
  /\ DemoStart

\* handleSolveRequest up to the call of the solver: a rejected body is
\* answered at once; an accepted one is copied into board.  The in-process
\* copies enter solveSudoku directly.
Validate ==
  /\ pc = "Received"
  /\ LET v == Validation(payload)
     IN IF v.accepted
        THEN /\ board' = v.board
             /\ pc' = IF variant = "process" THEN "Validated" ELSE "Init"
             /\ UNCHANGED response
        ELSE /\ response' = v.response
             /\ pc' = "Done"
             /\ UNCHANGED board
  /\ UNCHANGED << variant, assertions, result, model, solution, nextResult,
                  ret, thrown, output, steps >>
  /\ UNCHANGED << serviceVars, concVars, uiVars, demoVars >>

\* The solver process is running or waiting for its input.
ChildRunning ==
  pc \in {"Spawned", "Init", "Encoded", "FirstChecked", "SolutionExtracted",
          "BlockAdded", "Returned", "Thrown", "Hung"}

\* Exit code of a process ended by a signal.
SignalExit(signo) == 128 + signo

\* solveSudokuInProcess up to its first await: the process is spawned; a
\* signal that is already aborted kills it and throws, otherwise
\* abortHandler is registered and the board is written to stdin.
SpawnSolver ==
  /\ variant = "process"
  /\ pc = "Validated"
  /\ spawned' = TRUE
  /\ IF aborted
     THEN /\ killSent' = TRUE
          /\ exitCode' = SignalExit(15)
          /\ thrown' = AbortError
          /\ pc' = "ServerThrown"
          /\ UNCHANGED listening
     ELSE /\ listening' = TRUE
          /\ pc' = "Spawned"
          /\ UNCHANGED << killSent, exitCode, thrown >>
  /\ UNCHANGED << variant, board, assertions, result, model, solution,
                  nextResult, ret, output, response, steps >>
  /\ UNCHANGED << payload, aborted, fault >>
  /\ UNCHANGED << concVars, uiVars, demoVars >>

\* The write and the close of stdin complete: readInput of the solver
\* process returns the board and its solveSudoku is entered.
WriteStdin ==
  /\ variant = "process"
  /\ pc = "Spawned"
  /\ pc' = "Init"
  /\ UNCHANGED << variant, board, assertions, result, model, solution,
                  nextResult, ret, thrown, output, response, steps >>
  /\ UNCHANGED << serviceVars, concVars, uiVars, demoVars >>

\* Mutant: abortHandler does not kill the process.
AbortKills_Never(registered) == FALSE

\* abortHandler kills with SIGTERM whenever it is registered.
AbortKills(registered) == registered

\* The client goes away: the signal fires while the handler is suspended
\* in an await (req.json(), the write to stdin, process.output()).  A
\* registered abortHandler sends SIGTERM; a process that is still running
\* ends with the signal's exit code, one that has exited is untouched.
ClientAbort ==
  /\ variant = "process"
  /\ ~aborted
  /\ pc = "Received" \/ ChildRunning \/ pc = "Exited"
  /\ aborted' = TRUE
  /\ IF AbortKills(listening)
     THEN /\ killSent' = TRUE
          /\ IF ChildRunning
             THEN /\ pc' = "Exited"
                  /\ exitCode' = SignalExit(15)
             ELSE UNCHANGED << pc, exitCode >>
     ELSE UNCHANGED << killSent, pc, exitCode >>
  /\ UNCHANGED << variant, board, assertions, result, model, solution,
                  nextResult, ret, thrown, output, response, steps >>
  /\ UNCHANGED << payload, listening, spawned, fault >>
  /\ UNCHANGED << concVars, uiVars, demoVars >>

\* The solver process dies on its own, as in the segmentation fault the
\* repository reproduces.
SolverCrash ==
  /\ variant = "process"
  /\ ChildRunning
  /\ pc # "Hung"
  /\ fault' = "crash"
  /\ exitCode' = SignalExit(11)
  /\ pc' = "Exited"
  /\ UNCHANGED << variant, board, assertions, result, model, solution,
                  nextResult, ret, thrown, output, response, steps >>
  /\ UNCHANGED << payload, aborted, listening, spawned, killSent >>
  /\ UNCHANGED << concVars, uiVars, demoVars >>

\* A model that lacks the value of its first cell.
WithoutFirstCell(m) == [x \in DOMAIN m \ {Cells[0].name} |-> m[x]]

\* The first check answers sat with a model in which a cell has no value:
\* evaluating the cell gives back the cell, whose text is not a number.
FaultyFirstCheck ==
  /\ pc = "Encoded"
  /\ \E m \in Models(assertions) :
       /\ result' = "sat"
       /\ model' = WithoutFirstCell(m)
  /\ fault' = "model"
  /\ steps' = Append(steps, "check")
  /\ pc' = "FirstChecked"
  /\ UNCHANGED << variant, board, assertions, solution, nextResult, ret,
                  thrown, output, response >>
  /\ UNCHANGED << payload, aborted, listening, spawned, killSent, exitCode >>
  /\ UNCHANGED << concVars, uiVars, demoVars >>

\* A check of the solver process that never returns.
SolverHang ==
  /\ variant = "process"
  /\ pc \in {"Encoded", "BlockAdded"}
  /\ fault' = "hang"
  /\ pc' = "Hung"
  /\ UNCHANGED << variant, board, assertions, result, model, solution,
                  nextResult, ret, thrown, output, response, steps >>
  /\ UNCHANGED << payload, aborted, listening, spawned, killSent, exitCode >>
  /\ UNCHANGED << concVars, uiVars, demoVars >>

NextService ==
  \/ Validate
  \/ SpawnSolver
  \/ WriteStdin
  \/ ClientAbort
  \/ SolverCrash
  \/ FaultyFirstCheck
  \/ SolverHang
  \/ EncodeBoard
  \/ FirstCheck
  \/ ThrowNoSolution
  \/ Extract
  \/ AddBlock
  \/ SecondCheck
  \/ Respond
  \/ WriteOutput
  \/ ReadOutput
  \/ RespondProcess

\* The steps of the program itself between the solver's checks: each is a
\* continuation the event loop runs once it is ready.
ProgramStep ==
  \/ Validate
  \/ SpawnSolver
  \/ WriteStdin
  \/ EncodeBoard
  \/ ThrowNoSolution
  \/ Extract
  \/ AddBlock
  \/ Respond
  \/ WriteOutput
  \/ ReadOutput
  \/ RespondProcess

\* A check that gives up.  This answer is possible for every constraint
\* system, so while a check is pending one of these steps is enabled, and
\* weak fairness of them says that no check stays pending forever; the
\* answer with which it returns is left open.
FirstCheckGivesUp ==
  /\ pc = "Encoded"
  /\ result' = "unknown"
  /\ model' = NoModel
  /\ steps' = Append(steps, "check")
  /\ pc' = "FirstChecked"
  /\ UNCHANGED << variant, board, assertions, solution, nextResult, ret,
                  thrown, output, response >>
  /\ UNCHANGED << serviceVars, concVars, uiVars, demoVars >>

SecondCheckGivesUp ==
  /\ pc = "BlockAdded"
  /\ nextResult' = "unknown"
  /\ ret' = [solution |-> solution, solutionCount |-> SolutionCount("unknown")]
  /\ steps' = Append(steps, "check")
  /\ pc' = "Returned"
  /\ UNCHANGED << variant, board, assertions, result, model, solution,
                  thrown, output, response >>
  /\ UNCHANGED << serviceVars, concVars, uiVars, demoVars >>

CheckReturns == FirstCheckGivesUp \/ SecondCheckGivesUp

\* The client of a request whose solver hangs gives up.
AbortOfHung == pc = "Hung" /\ ClientAbort

\* The event loop runs every continuation that is ready and the solver's
\* checks return, except a hung one, whose client then aborts.
SpecService ==
  /\ InitService
  /\ [][NextService]_vars
  /\ WF_vars(ProgramStep)
  /\ WF_vars(CheckReturns)
  /\ WF_vars(AbortOfHung)

(***************************************************************************)
(* Concurrent requests.  Each request runs the steps of solveSudoku on the *)
(* solver context it was given; the steps of different requests            *)
(* interleave freely, which is what the process-per-request copy allows    *)
(* and more than the in-process copies allow, whose solveSudoku runs       *)
(* without a suspension point.                                             *)
(***************************************************************************)
\* Two requests are in flight.
Requests == {1, 2}

\* Mutant: every call uses one solver kept by the server.
SolverOf_Shared(r) == 1

\* const solver = z3.Solver(): a solver of its own for the r-th call.
SolverOf(r) == r

\* Mutant: every request is handed to one long-lived solver process.
ProcessOf_Shared(r) == 1

\* command.spawn(): a process of its own for the r-th request.
ProcessOf(r) == r

\* The solver context a request works on.
ContextOf(v, r) ==
  IF v = "process" THEN << "process", ProcessOf(r) >>
  ELSE << "solver", SolverOf(r) >>

Contexts == { << k, r >> : k \in {"process", "solver"}, r \in Requests }

\* A context holds the assertions added to it and the model of its last
\* satisfiable check.  A request keeps, besides the locals of solveSudoku,
\* the constraint systems its two checks were run on (seen1, seen2).
FreshContext == [assertions |-> << >>, model |-> NoModel]

NewRequest(v, b) ==
  [variant |-> v, board |-> b, pc |-> "Init", result |-> "none",
   solution |-> << >>, nextResult |-> "none", ret |-> NoReturn,
   thrown |-> NoError, response |-> NoResponse,
   seen1 |-> << >>, seen2 |-> << >>]

\* Boards of the concurrent requests: the solved grid (one solution), the
\* solved grid with two 7s in a row (none), and the solved grid with its
\* first rectangle blanked (two).
ConcBoards ==
  LET base == [i \in Indices |-> SolvedGrid[i + 1]]
  IN { BoardOf(base, {}, 4),
       BoardOf(base, {}, 7),
       BoardOf(base, {Idx(2, 4), Idx(2, 5), Idx(5, 4), Idx(5, 5)}, 4) }

\* The copies in a fixed order.
CopyRank(v) == CASE v = "inproc" -> 1 [] v = "debug" -> 2 [] v = "process" -> 3

\* The requests go to one copy of the service with any boards, or carry
\* one board to two copies; of two orders of the copies one is kept.
InitConc ==
  /\ reqs \in [Requests -> { NewRequest(v, b) : v \in Variants, b \in ConcBoards }]
  /\ \A r1, r2 \in Requests :
       r1 < r2 =>
         /\ CopyRank(reqs[r1].variant) <= CopyRank(reqs[r2].variant)
         /\ reqs[r1].variant = reqs[r2].variant \/ reqs[r1].board = reqs[r2].board
  /\ solvers = [c \in Contexts |-> FreshContext]
  /\ variant = "inproc"
  /\ board = << >>
  /\ pc = "Idle"
  /\ assertions = << >>
  /\ result = "none"
  /\ model = NoModel
  /\ solution = << >>
  /\ nextResult = "none"
  /\ ret = NoReturn
  /\ thrown = NoError
  /\ output = None
  /\ response = NoResponse
  /\ steps = << >>
  /\ payload = NotJson
  /\ aborted = FALSE
  /\ listening = FALSE
  /\ spawned = FALSE
  /\ killSent = FALSE
  /\ exitCode = 0
  /\ fault = "none"
  /\ PageLoaded
  /\ DemoStart

\* The encoder's assertions are added to the request's context.
ConcEncode(r) ==
  LET q == reqs[r]
      c == ContextOf(q.variant, r)
  IN /\ q.pc = "Init"
     /\ solvers' = [solvers EXCEPT ![c].assertions = @ \o Encode(q.board)]
     /\ reqs' = [reqs EXCEPT ![r].pc = "Encoded"]
     /\ UNCHANGED << solveVars, serviceVars, uiVars, demoVars >>

\* The first check, on whatever the context holds.
ConcFirstCheck(r) ==
  LET q == reqs[r]
      c == ContextOf(q.variant, r)
  IN /\ q.pc = "Encoded"
     /\ \E o \in CheckOutcomes(solvers[c].assertions) :
          /\ solvers' = [solvers EXCEPT ![c].model = o.model]
          /\ reqs' = [reqs EXCEPT ![r].result = o.result,
                                  ![r].seen1 = solvers[c].assertions,
                                  ![r].pc = "FirstChecked"]
     /\ UNCHANGED << solveVars, serviceVars, uiVars, demoVars >>

ConcThrowNoSolution(r) ==
  LET q == reqs[r]
  IN /\ q.pc = "FirstChecked"
     /\ ~IsSat(q.result)
     /\ reqs' = [reqs EXCEPT ![r].thrown = NoSolutionError(q.variant),
                             ![r].pc = "Thrown"]
     /\ UNCHANGED << solvers, solveVars, serviceVars, uiVars, demoVars >>

\* solver.model() of the request's context, read back cell by cell.
ConcExtract(r) ==
  LET q == reqs[r]
      m == solvers[ContextOf(q.variant, r)].model
  IN /\ q.pc = "FirstChecked"
     /\ IsSat(q.result)
     /\ IF m = NoModel
        THEN reqs' = [reqs EXCEPT
                        ![r].thrown = [name |-> "Error",
                                       message |-> "model is not available"],
                        ![r].pc = "Thrown"]
        ELSE LET values == [i \in Indices |-> ExtractValue(m, i)]
             IN IF \E i \in Indices : ~values[i].finite
                THEN reqs' = [reqs EXCEPT
                                ![r].thrown = [name |-> "Error",
                                               message |-> "Failed to parse solver value"],
                                ![r].pc = "Thrown"]
                ELSE reqs' = [reqs EXCEPT
                                ![r].solution = [i \in Indices |-> values[i].val],
                                ![r].pc = "SolutionExtracted"]
     /\ UNCHANGED << solvers, solveVars, serviceVars, uiVars, demoVars >>

ConcAddBlock(r) ==
  LET q == reqs[r]
      c == ContextOf(q.variant, r)
  IN /\ q.pc = "SolutionExtracted"
     /\ solvers' = [solvers EXCEPT
                      ![c].assertions = Append(@, BlockConstraint(q.variant, q.solution))]
     /\ reqs' = [reqs EXCEPT ![r].pc = "BlockAdded"]
     /\ UNCHANGED << solveVars, serviceVars, uiVars, demoVars >>

ConcSecondCheck(r) ==
  LET q == reqs[r]
      c == ContextOf(q.variant, r)
  IN /\ q.pc = "BlockAdded"
     /\ \E n \in { o.result : o \in CheckOutcomes(solvers[c].assertions) } :
          reqs' = [reqs EXCEPT
                     ![r].nextResult = n,
                     ![r].ret = [solution |-> q.solution,
                                 solutionCount |-> SolutionCount(n)],
                     ![r].seen2 = solvers[c].assertions,
                     ![r].pc = "Returned"]
     /\ UNCHANGED << solvers, solveVars, serviceVars, uiVars, demoVars >>

\* The response to a request whose solve has returned or thrown; in the
\* process-per-request copy a thrown error reaches the server as an
\* unsuccessful output of a process that exited with code 0.
ConcResponse(v, returned, r_ret, r_thrown) ==
  IF returned THEN SuccessResponse(r_ret)
  ELSE IF v = "process"
  THEN ProcessErrorResponse([name |-> "SudokuUnsolvableError",
                             message |-> r_thrown.message])
  ELSE ErrorResponse(r_thrown)

ConcRespond(r) ==
  LET q == reqs[r]
  IN /\ q.pc \in {"Returned", "Thrown"}
     /\ reqs' = [reqs EXCEPT
                   ![r].response = ConcResponse(q.variant, q.pc = "Returned",
                                                q.ret, q.thrown),
                   ![r].pc = "Done"]
     /\ UNCHANGED << solvers, solveVars, serviceVars, uiVars, demoVars >>

NextConc ==
  \E r \in Requests :
    \/ ConcEncode(r)
    \/ ConcFirstCheck(r)
    \/ ConcThrowNoSolution(r)
    \/ ConcExtract(r)
    \/ ConcAddBlock(r)
    \/ ConcSecondCheck(r)
    \/ ConcRespond(r)

SpecConc == InitConc /\ [][NextConc]_vars

(***************************************************************************)
(* The browser page: the script that drives the two grids, the Solve and   *)
(* Clear buttons and the status line.  A call of solveSudoku that sends a  *)
(* request is suspended at an await until the promise it awaits settles;   *)
(* fetches holds one record per such call, with the await it stands at     *)
(* and whether its signal has been aborted.                                *)
(***************************************************************************)
\* At most this many requests are sent.
MaxFetches == 2

\* The cells the user types into: (0, 0), two more cells of its row, one
\* more of its column and one more of its box; apart from (0, 0) and the
\* three cells of row 0, no two of them share a row, column or box.
TypedCells == { Idx(0, 0), Idx(0, 4), Idx(0, 8), Idx(4, 0), Idx(1, 1) }

\* What the value of cell i may read when its input event fires: nothing,
\* "1", and for the cell (0, 0) also "012", which leaves a 2 in the cell.
TypedValues(i) ==
  { << >>, << "1" >> }
    \cup (IF i = Idx(0, 0) THEN { << "0", "1", "2" >> } ELSE {})

\* input.value.replace(/[^1-9]/g, "")
Cleaned(value) == SelectSeq(value, LAMBDA ch : IsDigitChar(ch) /\ ch # "0")

\* cleaned.slice(-1)
LastChar(cleaned) ==
  IF cleaned = << >> THEN << >> ELSE << cleaned[Len(cleaned)] >>

\* The input event of cell i, which then reads value.
handleInput(i, value) ==
  /\ ~inputDisabled
  /\ inputCells' = [inputCells EXCEPT ![i] = LastChar(Cleaned(value))]
  /\ errorCells' = errorCells \ {i}
  /\ UNCHANGED << solutionCells, statusEl, solveBtn, clearBtn, inputDisabled,
                  abortController, fetches >>
  /\ UNCHANGED << solveVars, serviceVars, concVars, demoVars >>

\* Number(value) of a cell that holds one digit.
Number(value) == DigitVal(value[1])

readBoard ==
  [i \in Indices |-> IF inputCells[i] = << >> THEN 0 ELSE Number(inputCells[i])]

\* writeBoard(board, cellsArray): the values the cells then show.
writeBoard(b) ==
  [i \in Indices |-> IF b[i] # 0 THEN NatToString(b[i]) ELSE << >>]

\* Mutant: only the later of two equal cells is marked.
AddConflict_OnlyLater(idx, first) == {idx}

\* A repeated value marks the cell it is met in and the cell it was first
\* seen in.
AddConflict(idx, first) == {idx, first}

RECURSIVE checkGroup(_, _, _, _, _)
\* checkGroup(indices) from its k-th index on, with the map seen and the
\* conflicts found so far.
checkGroup(b, indices, k, seen, conflicts) ==
  IF k > Len(indices) THEN conflicts
  ELSE LET idx == indices[k]
           value == b[idx]
       IN IF value = 0
          THEN checkGroup(b, indices, k + 1, seen, conflicts)
          ELSE IF value \in DOMAIN seen
          THEN checkGroup(b, indices, k + 1, seen,
                          conflicts \cup AddConflict(idx, seen[value]))
          ELSE checkGroup(b, indices, k + 1, (value :> idx) @@ seen, conflicts)

\* The index lists findConflicts builds, in its order.
RowIndices(row) == [n \in 1..GRID_SIZE |-> row * GRID_SIZE + (n - 1)]

ColIndices(col) == [n \in 1..GRID_SIZE |-> (n - 1) * GRID_SIZE + col]

BoxIndices(boxRow, boxCol) ==
  [n \in 1..(SUBGRID_SIZE * SUBGRID_SIZE) |->
     LET row == (n - 1) \div SUBGRID_SIZE
         col == (n - 1) % SUBGRID_SIZE
         r == boxRow * SUBGRID_SIZE + row
         c == boxCol * SUBGRID_SIZE + col
     IN r * GRID_SIZE + c]

\* The index lists of the rows, then of the columns, then of the boxes.
GroupIndices ==
  [row \in 1..GRID_SIZE |-> RowIndices(row - 1)]
    \o [col \in 1..GRID_SIZE |-> ColIndices(col - 1)]
    \o [n \in 1..(SUBGRID_SIZE * SUBGRID_SIZE) |->
          BoxIndices((n - 1) \div SUBGRID_SIZE, (n - 1) % SUBGRID_SIZE)]

findConflicts(b) ==
  UNION { checkGroup(b, GroupIndices[g], 1, << >>, {}) :
            g \in 1..Len(GroupIndices) }

\* A call that has returned: it holds no response and no signal any more.
Ended == [pos |-> "done", aborted |-> FALSE, status |-> 0]

setLoading(isLoading) ==
  /\ solveBtn' = IF isLoading THEN "Cancel" ELSE "Solve"
  /\ clearBtn' = isLoading
  /\ inputDisabled' = isLoading

\* A click on the Solve button.  With a request outstanding the click
\* cancels it: abort() rejects a fetch promise that is still pending, so a
\* call suspended at fetch resumes as soon as the listener has returned,
\* in its catch and finally, which repeat what the listener did; a call
\* suspended at the reading of the body stays suspended, since the body's
\* promise settles in a later task.
ClickSolve ==
  /\ IF abortController # 0
     THEN /\ fetches' = [fetches EXCEPT
                           ![abortController] =
                              IF @.pos = "fetch" THEN Ended
                              ELSE [@ EXCEPT !.aborted = TRUE]]
          /\ abortController' = 0
          /\ setLoading(FALSE)
          /\ statusEl' = Status("Cancelled", "null")
          /\ UNCHANGED << inputCells, errorCells, solutionCells >>
     ELSE LET conflicts == findConflicts(readBoard)
          IN IF conflicts # {}
             THEN /\ errorCells' = conflicts
                  /\ statusEl' =
                       Status("Please resolve highlighted conflicts before solving.",
                              "error")
                  /\ UNCHANGED << inputCells, solutionCells, solveBtn, clearBtn,
                                  inputDisabled, abortController, fetches >>
             ELSE /\ Len(fetches) < MaxFetches
                  /\ statusEl' = Status("Solving...", "null")
                  /\ errorCells' = {}
                  /\ setLoading(TRUE)
                  /\ abortController' = Len(fetches) + 1
                  /\ fetches' = Append(fetches,
                                       [pos |-> "fetch", aborted |-> FALSE,
                                        status |-> 0])
                  /\ UNCHANGED << inputCells, solutionCells >>
  /\ UNCHANGED << solveVars, serviceVars, concVars, demoVars >>

\* A click on the Clear button: clearBoard().
ClickClear ==
  /\ ~clearBtn
  /\ inputCells' = EmptyGrid
  /\ errorCells' = {}
  /\ solutionCells' = EmptyGrid
  /\ statusEl' = Status("", "null")
  /\ UNCHANGED << solveBtn, clearBtn, inputDisabled, abortController, fetches >>
  /\ UNCHANGED << solveVars, serviceVars, concVars, demoVars >>

\* The status codes the service answers with.
StatusCodes == {200, 422}

\* response.ok
Ok(status) == status \in 200..299

\* The call r is suspended at the await named pos.
AwaitsAt(r, pos) == fetches[r].pos = pos

\* catch (error): the status line it sets.
Catch(error) ==
  IF error.name = "AbortError" THEN Status("Cancelled", "null")
  ELSE Status(error.message, "error")

\* finally, and the end of the call r.
Finally(r) ==
  /\ abortController' = 0
  /\ setLoading(FALSE)
  /\ fetches' = [fetches EXCEPT ![r] = Ended]

\* The response of request r arrives: the call goes on to read its body,
\* with response.json() or, in safeParseError, with response.text().
FetchResponds(r, status) ==
  /\ AwaitsAt(r, "fetch")
  /\ fetches' = [fetches EXCEPT ![r].status = status,
                                ![r].pos = IF Ok(status) THEN "json" ELSE "text"]
  /\ UNCHANGED << inputCells, errorCells, solutionCells, statusEl, solveBtn,
                  clearBtn, inputDisabled, abortController >>
  /\ UNCHANGED << solveVars, serviceVars, concVars, demoVars >>

\* Request r fails on the network: fetch rejects with a TypeError.
FetchFails(r) ==
  /\ AwaitsAt(r, "fetch")
  /\ statusEl' = Catch([name |-> "TypeError", message |-> "Failed to fetch"])
  /\ Finally(r)
  /\ UNCHANGED << inputCells, errorCells, solutionCells >>
  /\ UNCHANGED << solveVars, serviceVars, concVars, demoVars >>

\* What response.json() may settle with: a payload, or for an aborted
\* request an AbortError; a body that had been read before the abort still
\* settles the promise with its payload.
SolvedPayload(count) ==
  [solution |-> [i \in Indices |-> SolvedGrid[i + 1]], solutionCount |-> count]

JsonOutcomes(r) ==
  { [kind |-> "payload", payload |-> SolvedPayload(count)] : count \in 0..2 }
    \cup { [kind |-> "payload",
            payload |-> [solution |-> << >>, solutionCount |-> 1]] }
    \cup ( IF fetches[r].aborted
           THEN { [kind |-> "error",
                   error |-> [name |-> "AbortError",
                              message |-> "The operation was aborted."]] }
           ELSE {} )

\* payload.solution is an array of 81 entries
ExpectedFormat(data) == DOMAIN data.solution = Indices

\* payload.solutionCount || 1, with 0 for a count that is absent
CountOf(data) ==
  IF data.solutionCount = 0 THEN 1 ELSE data.solutionCount

\* response.json() of request r settles and the call runs to its end.
BodyRead(r, outcome) ==
  /\ AwaitsAt(r, "json")
  /\ IF outcome.kind = "error"
     THEN /\ statusEl' = Catch(outcome.error)
          /\ UNCHANGED solutionCells
     ELSE IF ~ExpectedFormat(outcome.payload)
     THEN /\ statusEl' =
               Catch([name |-> "Error",
                      message |-> "Solver returned an unexpected response format."])
          /\ UNCHANGED solutionCells
     ELSE /\ solutionCells' = writeBoard(outcome.payload.solution)
          /\ statusEl' =
               IF CountOf(outcome.payload) = 1
               THEN Status("Solved! This puzzle has a unique solution.", "success")
               ELSE Status("Solved! This puzzle has multiple solutions. Showing one example.",
                           "success")
  /\ Finally(r)
  /\ UNCHANGED << inputCells, errorCells >>
  /\ UNCHANGED << solveVars, serviceVars, concVars, demoVars >>

\* What safeParseError may return: the error text of the body, or null
\* (here "") for an empty body or a body that could not be read.
ErrorDetails == { "Sudoku has no solution.", "" }

\* detail || `Solver request failed (${response.status}).`
FailureMessage(detail, status) ==
  IF detail # "" THEN detail
  ELSE "Solver request failed (" \o ToString(status) \o ")."

\* safeParseError of request r returns and the call runs to its end.
ErrorRead(r, detail) ==
  /\ AwaitsAt(r, "text")
  /\ statusEl' =
       Catch([name |-> "Error",
              message |-> FailureMessage(detail, fetches[r].status)])
  /\ Finally(r)
  /\ UNCHANGED << inputCells, errorCells, solutionCells >>
  /\ UNCHANGED << solveVars, serviceVars, concVars, demoVars >>

\* No request is at the service and none is being solved.
ServiceIdle ==
  /\ variant = "inproc"
  /\ board = << >>
  /\ pc = "Idle"
  /\ assertions = << >>
  /\ result = "none"
  /\ model = NoModel
  /\ solution = << >>
  /\ nextResult = "none"
  /\ ret = NoReturn
  /\ thrown = NoError
  /\ output = None
  /\ response = NoResponse
  /\ steps = << >>
  /\ payload = NotJson
  /\ aborted = FALSE
  /\ listening = FALSE
  /\ spawned = FALSE
  /\ killSent = FALSE
  /\ exitCode = 0
  /\ fault = "none"
  /\ reqs = << >>
  /\ solvers = << >>

InitPage ==
  /\ PageLoaded
  /\ ServiceIdle
  /\ DemoStart

NextPage ==
  \/ ClickSolve
  \/ ClickClear
  \/ \E i \in TypedCells : \E value \in TypedValues(i) : handleInput(i, value)
  \/ \E r \in DOMAIN fetches : \E status \in StatusCodes : FetchResponds(r, status)
  \/ \E r \in DOMAIN fetches : FetchFails(r)
  \/ \E r \in DOMAIN fetches : \E outcome \in JsonOutcomes(r) : BodyRead(r, outcome)
  \/ \E r \in DOMAIN fetches : \E detail \in ErrorDetails : ErrorRead(r, detail)

SpecPage == InitPage /\ [][NextPage]_vars

(***************************************************************************)
(* The boolean demo: five exactly-one constraints over nine boolean        *)
(* variables, a first check, and a loop that reports and blocks one model  *)
(* after another.  The solver's answers depend only on which assertions it *)
(* holds, so demoSolver is their set; consoleLog maps each assignment the  *)
(* loop has printed to the number of times it was printed.                 *)
(***************************************************************************)
Bool(name) == [op |-> "bool", name |-> name]

If(condition, ifTrue, ifFalse) ==
  [op |-> "if", args |-> << condition, ifTrue, ifFalse >>]

Sum(es) == [op |-> "sum", args |-> es]

RECURSIVE DemoValue(_, _)
\* The value of an expression of the demo under an assignment m of the
\* boolean variables.
DemoValue(e, m) ==
  CASE e.op = "bool" -> m[e.name]
    [] e.op = "num" -> e.val
    [] e.op = "if" ->
         IF DemoValue(e.args[1], m) THEN DemoValue(e.args[2], m)
         ELSE DemoValue(e.args[3], m)
    [] e.op = "sum" ->
         IF e.args = << >> THEN 0
         ELSE DemoValue(Head(e.args), m) + DemoValue(Sum(Tail(e.args)), m)
    [] e.op = "eq" -> DemoValue(e.args[1], m) = DemoValue(e.args[2], m)
    [] e.op = "not" -> ~DemoValue(e.args[1], m)
    [] e.op = "or" -> \E k \in 1..Len(e.args) : DemoValue(e.args[k], m)

varNames == << "a", "b", "c", "d", "e", "f", "g", "h", "i" >>

variables == [j \in 1..Len(varNames) |-> Bool(varNames[j])]

\* z3.Sum(z3.If(v, 1, 0), ...).__eq__(z3.IntVal(1)) over the named variables
ExactlyOne(names) ==
  Eq(Sum([k \in 1..Len(names) |-> If(Bool(names[k]), IntVal(1), IntVal(0))]),
     IntVal(1))

\* constraint1 .. constraint5
DemoConstraints ==
  { ExactlyOne(<< "a", "b", "c" >>),
    ExactlyOne(<< "a", "d" >>),
    ExactlyOne(<< "c", "e", "f" >>),
    ExactlyOne(<< "g", "h" >>),
    ExactlyOne(<< "g", "i" >>) }

\* What solver.check() may answer for the assertions as, with the model the
\* solver then holds: by the backend's contract sat with an assignment that
\* satisfies them all, unsat when there is none, or unknown.
DemoCheckOutcomes(as) ==
  LET sums == { e \in as : e.op = "eq" }
      ms == { m \in { n \in [{ varNames[j] : j \in 1..Len(varNames) } -> BOOLEAN] :
                        \A e \in sums : DemoValue(e, n) } :
                \A e \in as \ sums : DemoValue(e, m) }
  IN {[result |-> "unknown", model |-> NoModel]} \cup
       (IF ms = {} THEN {[result |-> "unsat", model |-> NoModel]}
        ELSE {[result |-> "sat", model |-> m] : m \in ms})

\* Mutant: the clause constrains the first variable only.
BlockClause_FirstOnly(values) ==
  Or(<< IF values[1] THEN Not(variables[1]) ELSE variables[1] >>)

\* z3.Or(...variables.map((v, idx) => values[idx] ? z3.Not(v) : v))
BlockClause(values) ==
  Or([idx \in 1..Len(variables) |->
        IF values[idx] THEN Not(variables[idx]) ELSE variables[idx]])

\* The five constraints are added to the solver.
AddConstraints ==
  /\ demoPc = "Start"
  /\ demoSolver' = demoSolver \cup DemoConstraints
  /\ demoPc' = "Constrained"
  /\ UNCHANGED << solutionCount, consoleLog, demoResult >>
  /\ UNCHANGED << solveVars, serviceVars, concVars, uiVars >>

\* const result = solver.check(): on sat the first model is printed and the
\* loop is entered with solutionCount 0, otherwise the script ends.
DemoFirstCheck ==
  /\ demoPc = "Constrained"
  /\ \E o \in DemoCheckOutcomes(demoSolver) :
       /\ demoResult' = o.result
       /\ demoPc' = IF o.result = "sat" THEN "Loop" ELSE "Done"
  /\ solutionCount' = 0
  /\ UNCHANGED << demoSolver, consoleLog >>
  /\ UNCHANGED << solveVars, serviceVars, concVars, uiVars >>

\* val.toString() === "True" of the value a model gives a variable
IsTrue(m, v) == (IF m[v.name] THEN "True" ELSE "False") = "True"

\* One evaluation of the loop's condition and, if the check answers sat,
\* one run of its body: the model is counted, printed and blocked.
\* Otherwise the loop is left and the total is printed.
LoopStep ==
  /\ demoPc = "Loop"
  /\ \E o \in DemoCheckOutcomes(demoSolver) :
       /\ demoResult' = o.result
       /\ IF o.result = "sat"
          THEN LET values == [j \in 1..Len(variables) |-> IsTrue(o.model, variables[j])]
               IN /\ solutionCount' = solutionCount + 1
                  /\ consoleLog' =
                       (values :> (IF values \in DOMAIN consoleLog
                                   THEN consoleLog[values] + 1 ELSE 1))
                         @@ consoleLog
                  /\ demoSolver' = demoSolver \cup {BlockClause(values)}
                  /\ UNCHANGED demoPc
          ELSE /\ demoPc' = "Done"
               /\ UNCHANGED << demoSolver, solutionCount, consoleLog >>
  /\ UNCHANGED << solveVars, serviceVars, concVars, uiVars >>

InitDemo ==
  /\ DemoStart
  /\ ServiceIdle
  /\ PageLoaded

NextDemo ==
  \/ AddConstraints
  \/ DemoFirstCheck
  \/ LoopStep

\* A check returns: the step of DemoFirstCheck or LoopStep in which the
\* answer is unknown, the one answer every set of assertions allows.
DemoCheckReturns ==
  /\ demoPc \in {"Constrained", "Loop"}
  /\ demoResult' = "unknown"
  /\ demoPc' = "Done"
  /\ solutionCount' = IF demoPc = "Constrained" THEN 0 ELSE solutionCount
  /\ UNCHANGED << demoSolver, consoleLog >>
  /\ UNCHANGED << solveVars, serviceVars, concVars, uiVars >>

\* The script is a sequential program that keeps running until it ends:
\* it does not stop before a statement it can execute, and a check it has
\* called returns.
SpecDemo ==
  /\ InitDemo
  /\ [][NextDemo]_vars
  /\ WF_vars(AddConstraints)
  /\ WF_vars(DemoCheckReturns)

(***************************************************************************)
(* Sudoku's rules, stated on grids directly.                               *)
(***************************************************************************)
RowOf(i) == i \div GRID_SIZE

ColOf(i) == i % GRID_SIZE

BoxOf(i) == << RowOf(i) \div BOX_SIZE, ColOf(i) \div BOX_SIZE >>

SameGroup(i, j) ==
  RowOf(i) = RowOf(j) \/ ColOf(i) = ColOf(j) \/ BoxOf(i) = BoxOf(j)

IsGrid(g) == DOMAIN g = Indices

\* Each row, column and box of g holds each of 1..9 exactly once.
ValidGrid(g) ==
  /\ IsGrid(g)
  /\ \A n \in Lines : { g[i] : i \in { j \in Indices : RowOf(j) = n } } = Digits
  /\ \A n \in Lines : { g[i] : i \in { j \in Indices : ColOf(j) = n } } = Digits
  /\ \A br \in 0..(BOX_SIZE - 1) : \A bc \in 0..(BOX_SIZE - 1) :
       { g[i] : i \in { j \in Indices : BoxOf(j) = << br, bc >> } } = Digits

KeepsClues(g, b) == \A i \in Indices : b[i] # 0 => g[i] = b[i]

\* Two cells of one row, column or box carry the same non-zero clue.
HasDuplicateClue(b) ==
  \E i \in Indices : \E j \in Indices :
     i # j /\ b[i] # 0 /\ b[i] = b[j] /\ SameGroup(i, j)

RECURSIVE Fillings(_, _)
\* Every way to fill the cells of blanks in g with digits that no filled
\* cell of the same row, column or box carries.
Fillings(g, blanks) ==
  IF blanks = {} THEN {g}
  ELSE LET i == CHOOSE j \in blanks : TRUE
           used == { g[j] : j \in { k \in Indices : k # i /\ SameGroup(i, k) } }
       IN UNION { Fillings([g EXCEPT ![i] = v], blanks \ {i}) :
                    v \in Digits \ used }

\* Every valid grid that agrees with the clues of b.
ValidGrids(b) ==
  { g \in Fillings(b, { i \in Indices : b[i] = 0 }) : ValidGrid(g) }

FullValid(b) == ValidGrid(b)

\* The solver assignment that reads as the grid g.
AssignmentOf(g) ==
  [n \in { CellName(r, c) : r \in Lines, c \in Lines } |-> g[Idx(n[2], n[3])]]

HasReturned == pc \in {"Returned", "Exited", "ServerReturned", "Done"} /\ thrown = NoError

Succeeded == pc = "Done" /\ response.status = 200

UnsolvableResponse ==
  JsonError("The provided Sudoku board is unsatisfiable.", 422)

IsPrefix(s, t) == Len(s) <= Len(t) /\ \A k \in 1..Len(s) : s[k] = t[k]

Protocol == << "encode", "check", "model", "block", "check" >>

(***************************************************************************)
(* Claims.                                                                 *)
(***************************************************************************)
\* C1: whenever solveSudoku returns, the solution it returns (and the one
\* the response carries) is a valid grid: every row, column and box holds
\* each of 1..9 exactly once.
C1_ReturnedSolutionValid ==
  /\ HasReturned => ValidGrid(ret.solution)
  /\ Succeeded => ValidGrid(response.body.solution)

C1_Witness ==
  /\ Succeeded
  /\ Cardinality({ i \in Indices : board[i] = 0 }) >= 2

\* C2: whenever solveSudoku returns, every non-zero clue of the board is
\* found at the same index of the solution.
C2_CluesPreserved ==
  /\ HasReturned => KeepsClues(ret.solution, board)
  /\ Succeeded => KeepsClues(response.body.solution, board)

C2_Witness ==
  /\ Succeeded
  /\ board[OverrideCell] # 0
  /\ \A base \in BaseGrids : board[OverrideCell] # base[OverrideCell]

\* C3: solutionCount 1 is returned only if no other valid grid keeps the
\* clues, and solutionCount 2 only if another one does.
C3_UniquenessFlagCorrect ==
  HasReturned =>
    /\ ret.solutionCount = 1 => ValidGrids(board) \subseteq {ret.solution}
    /\ ret.solutionCount = 2 => \E g \in ValidGrids(board) : g # ret.solution

\* C4: a board with a duplicated clue in a row, column or box ends as
\* Unsolvable (422), and no solution is ever extracted or returned for it.
C4_DuplicateClueUnsolvable ==
  \/ /\ solution = << >>
     /\ ret = NoReturn
     /\ pc = "Done" => response = UnsolvableResponse
  \/ ~HasDuplicateClue(board)

C4_Witness ==
  /\ pc = "Done"
  /\ HasDuplicateClue(board)
  /\ result = "unsat"
  /\ response.status = 422

\* C5: a request whose first check answered unknown does not end with the
\* response given for an unsatisfiable board.
C5_UnknownNotUnsolvable ==
  (pc = "Done" /\ result = "unknown") => response # UnsolvableResponse

\* C6: a request whose second check answered unknown ends as an error and
\* never as a solution with solutionCount 1.
C6_SecondUnknownNotUnique ==
  (pc = "Done" /\ nextResult = "unknown") =>
    /\ response.status # 200
    /\ DOMAIN response.body = {"error"}

\* C7: the blocking constraint goes to the solver that holds the encoding
\* and removes the extracted solution and nothing else.
C7_BlockRemovesExactlyOne ==
  pc = "BlockAdded" =>
    /\ SubSeq(assertions, 1, Len(assertions) - 1) = Encode(board)
    /\ AssignmentOf(solution) \in Models(Encode(board))
    /\ Models(assertions) = Models(Encode(board)) \ {AssignmentOf(solution)}

C7_Witness ==
  /\ pc = "BlockAdded"
  /\ Cardinality(Models(assertions)) >= 1

C9_StepOrder ==
  /\ IsPrefix(steps, Protocol)
  /\ (result \in {"unsat", "unknown"}) =>
       /\ steps = << "encode", "check" >>
       /\ assertions = Encode(board)
       /\ solution = << >>
       /\ nextResult = "none"

C9_Witness ==
  /\ pc = "Done"
  /\ steps = Protocol
  /\ nextResult = "sat"

\* C10: a finished request carries either a complete solution with its
\* solutionCount and no error, or an error and nothing else.
C10_CompleteOrError ==
  pc = "Done" =>
    \/ /\ DOMAIN response.body = {"solution", "solutionCount"}
       /\ response.status = 200
       /\ DOMAIN response.body.solution = Indices
       /\ \A i \in Indices : response.body.solution[i] \in Digits
       /\ response.body.solutionCount \in {1, 2}
    \/ /\ DOMAIN response.body = {"error"}
       /\ response.status # 200

C10_Witness ==
  /\ pc = "Done"
  /\ variant = "process"
  /\ response.status = 200
  /\ response.body.solutionCount = 2

(***************************************************************************)
(* Claims about the whole request.                                         *)
(***************************************************************************)
\* An entry that is an integer in 0..9.
IsCellEntry(v) == v.type = "number" /\ \E n \in 0..GRID_SIZE : v.halves = 2 * n

\* The body is JSON for an object whose board is an array of 81 integers
\* in 0..9.
WellFormedRequest(p) ==
  /\ p.wellFormed
  /\ p.value.type = "object"
  /\ p.value.board.type = "array"
  /\ Len(p.value.board.items) = BOARD_SIZE
  /\ \A k \in 1..BOARD_SIZE : IsCellEntry(p.value.board.items[k])

\* No solver context was created and no solver process was spawned.
SolverNotInvoked == steps = << >> /\ assertions = << >> /\ ~spawned

\* C11: a request whose body is not valid JSON, whose board is not an
\* array, whose board has not 81 entries, or that has an entry that is not
\* an integer in 0..9, is answered 400 and the solver is never invoked.
C11_MalformedRejected ==
  (pc = "Done" /\ ~WellFormedRequest(payload)) =>
    response.status = 400 /\ SolverNotInvoked

\* C12: a solver failure other than proven unsatisfiability (a model value
\* that does not parse as a number, a crash of the solver process) is
\* answered 500 and never 422, in the in-process copies and in the
\* process-per-request copy.
C12_FailureIsInternal ==
  (pc = "Done" /\ fault \in {"model", "crash"} /\ ~aborted) =>
    response.status = 500

\* C13: in the process-per-request copy, a signal that fires at any moment
\* from the start of solveSudokuInProcess to the response has SIGTERM sent
\* to the spawned process, and the request is answered 499: never a
\* solution, never 422 or 500.
C13_AbortGives499 ==
  (variant = "process" /\ aborted /\ spawned) =>
    /\ killSent
    /\ pc = "Done" => (response.status = 499 /\ DOMAIN response.body = {"error"})

\* The signal fired while the solver process was at work, after its first
\* check had found the board satisfiable.
C13_Witness ==
  /\ pc = "Done"
  /\ variant = "process"
  /\ aborted
  /\ spawned
  /\ result = "sat"
  /\ response.status = 499

(***************************************************************************)
(* Claims about concurrent requests.                                       *)
(***************************************************************************)
\* The responses a request with board b can get from copy v when it is the
\* only request: every answer of the first check, and for a satisfiable
\* one every answer of the second check on the blocked system.
SoloResponses(v, b) ==
  LET enc == Encode(b)
      After(o) ==
        IF ~IsSat(o.result)
        THEN { ConcResponse(v, FALSE, NoReturn, NoSolutionError(v)) }
        ELSE LET sol == [i \in Indices |-> ExtractValue(o.model, i).val]
                 blocked == Append(enc, BlockConstraint(v, sol))
             IN { ConcResponse(v, TRUE,
                               [solution |-> sol,
                                solutionCount |-> SolutionCount(n.result)],
                               NoError) : n \in CheckOutcomes(blocked) }
  IN UNION { After(o) : o \in CheckOutcomes(enc) }

\* The context of request r holds nothing, or the encoding of r's board,
\* or that encoding and the block of r's solution.
OwnContext(r) ==
  LET q == reqs[r]
      held == solvers[ContextOf(q.variant, r)].assertions
      enc == Encode(q.board)
  IN \/ q.pc = "Init" /\ held = << >>
     \/ q.pc \in {"Encoded", "FirstChecked", "SolutionExtracted", "Thrown", "Done"}
          /\ held = enc
     \/ q.pc \in {"BlockAdded", "Returned", "Done"}
          /\ q.solution # << >>
          /\ held = Append(enc, BlockConstraint(q.variant, q.solution))

\* C14: of several requests that run concurrently each works on a solver
\* context of its own, which holds the constraints of that request and of
\* no other, and each is answered as it could have been answered alone.
C14_RequestsIsolated ==
  \A r \in Requests :
    /\ \A r2 \in Requests \ {r} :
         ContextOf(reqs[r].variant, r) # ContextOf(reqs[r2].variant, r2)
    /\ OwnContext(r)
    /\ reqs[r].pc = "Done" =>
         reqs[r].response \in SoloResponses(reqs[r].variant, reqs[r].board)

\* One request has been answered with a solution while the other, on a
\* board without solution in the same copy, is between its encoding and
\* its check.
C14_Witness ==
  /\ reqs # << >>
  /\ reqs[1].variant = reqs[2].variant
  /\ reqs[1].board # reqs[2].board
  /\ reqs[1].pc = "Done"
  /\ reqs[1].response.status = 200
  /\ reqs[1].response.body.solutionCount = 2
  /\ reqs[2].pc = "Encoded"
  /\ Models(solvers[ContextOf(reqs[2].variant, 2)].assertions) = {}

DistinctsOf(as) == SelectSeq(as, LAMBDA e : e.op = "distinct")

\* The groups (as sets of cells) among ds[lo..hi] that hold cell x.
GroupsWith(ds, lo, hi, x) ==
  { k \in lo..hi : \E n \in 1..Len(ds[k].args) : ds[k].args[n] = x }

\* C17: the encoder asserts all-distinct over exactly 27 groups of 9 cells:
\* 9 rows, 9 columns and 9 boxes.  Every cell is in exactly one row group,
\* one column group and one box group, and the box group of cell (row, col)
\* is the one indexed by (row div 3, col div 3).
C17_GroupsPartition ==
  pc = "Encoded" =>
    LET ds == DistinctsOf(assertions)
    IN /\ Len(ds) = 27
       /\ \A k \in 1..27 :
            /\ Len(ds[k].args) = 9
            /\ Cardinality({ ds[k].args[n] : n \in 1..9 }) = 9
       /\ \A row \in 0..8, col \in 0..8 :
            LET x == IntVar(CellName(row, col))
            IN /\ GroupsWith(ds, 1, 9, x) = { 1 + row }
               /\ GroupsWith(ds, 10, 18, x) = { 10 + col }
               /\ GroupsWith(ds, 19, 27, x) = { 19 + (row \div 3) * 3 + col \div 3 }

\* The encoder has run on a board with a blank cell.
C17_Witness ==
  /\ pc = "Encoded"
  /\ Len(DistinctsOf(assertions)) = 27
  /\ \E i \in Indices : board[i] = 0

\* The assertions of kind op among as, as a set of positions.
PositionsOf(as, e) == { k \in 1..Len(as) : as[k] = e }

\* C18: before the first check the constraint system holds, for each of
\* the 81 cells, its domain constraint 1..9 (added once, as the lower and
\* the upper bound), one clue equality for each non-zero board entry and
\* none for a zero entry, the 27 all-distinct constraints, and nothing
\* else.
C18_EncodedSystem ==
  pc = "Encoded" =>
    LET clues == { i \in Indices : board[i] # 0 }
        CellAt(i) == IntVar(CellName(i \div 9, i % 9))
        eqs == { k \in 1..Len(assertions) : assertions[k].op = "eq" }
    IN /\ \A i \in Indices :
            /\ Cardinality(PositionsOf(assertions, Ge(CellAt(i), IntVal(1)))) = 1
            /\ Cardinality(PositionsOf(assertions, Le(CellAt(i), IntVal(9)))) = 1
       /\ \A i \in clues :
            Cardinality(PositionsOf(assertions, Eq(CellAt(i), IntVal(board[i])))) = 1
       /\ Cardinality(eqs) = Cardinality(clues)
       /\ Len(DistinctsOf(assertions)) = 27
       /\ Len(assertions) = 2 * 81 + Cardinality(clues) + 27

\* The encoder has run on a board with four blank cells.
C18_Witness ==
  /\ pc = "Encoded"
  /\ Cardinality({ i \in Indices : board[i] = 0 }) = 4
  /\ Len(assertions) = 2 * 81 + 77 + 27

\* The constraints of a system, as a set.
ConstraintSet(as) == { as[k] : k \in 1..Len(as) }

FirstChecked(r) == reqs[r].result # "none"

SecondChecked(r) == reqs[r].nextResult # "none"

\* The decision procedure is a function of the constraint set: on the two
\* runs, checks of equal sets gave equal answers and equal models.
SameAnswers(r1, r2) ==
  /\ (FirstChecked(r1) /\ FirstChecked(r2)
        /\ ConstraintSet(reqs[r1].seen1) = ConstraintSet(reqs[r2].seen1)) =>
       /\ reqs[r1].result = reqs[r2].result
       /\ (reqs[r1].solution # << >> /\ reqs[r2].solution # << >>) =>
            reqs[r1].solution = reqs[r2].solution
  /\ (SecondChecked(r1) /\ SecondChecked(r2)
        /\ ConstraintSet(reqs[r1].seen2) = ConstraintSet(reqs[r2].seen2)) =>
       reqs[r1].nextResult = reqs[r2].nextResult

Finished(r) == reqs[r].pc \in {"Returned", "Thrown", "Done"}

Failed(r) == reqs[r].thrown # NoError

Loading == solveBtn = "Cancel" /\ clearBtn /\ inputDisabled

NotLoading == solveBtn = "Solve" /\ ~clearBtn /\ ~inputDisabled

\* The requests that have been sent and neither cancelled nor completed.
InFlight == { r \in DOMAIN fetches : fetches[r].pos # "done" /\ ~fetches[r].aborted }

\* C21: under any interleaving of clicks and completions the controls are
\* in the loading state exactly when a request is in flight, which is
\* exactly when abortController is non-null, and at most one request is in
\* flight at a time.
C21_LoadingIffInFlight ==
  /\ Loading \/ NotLoading
  /\ Loading <=> InFlight # {}
  /\ InFlight # {} <=> abortController # 0
  /\ Cardinality(InFlight) <= 1

\* The call r of solveSudoku runs to its end in this step.
Completes(r) == fetches[r].pos # "done" /\ fetches'[r].pos = "done"

\* C22: the completion of a request that has been cancelled writes nothing
\* to the solution grid, and leaves the abortController and the loading
\* state of a request started after it as they are.
C22_CancelledHasNoEffect ==
  [][\A r \in DOMAIN fetches :
       (fetches[r].aborted /\ Completes(r)) =>
          /\ solutionCells' = solutionCells
          /\ abortController # 0 =>
               /\ abortController' = abortController
               /\ solveBtn' = solveBtn
               /\ clearBtn' = clearBtn
               /\ inputDisabled' = inputDisabled]_vars

\* The cells whose non-zero value also occurs in another cell of the same
\* row, column or box.
Clashing(b) ==
  { i \in Indices :
      b[i] # 0 /\ \E j \in Indices : j # i /\ b[j] = b[i] /\ SameGroup(i, j) }

ConflictStatus ==
  Status("Please resolve highlighted conflicts before solving.", "error")

\* C23: findConflicts(board) is exactly the set of cells whose non-zero value
\* also occurs in another cell of the same row, column or box; when it is
\* non-empty a Solve click sends no request, leaves the solution grid and
\* the loading state as they are, marks exactly the conflicting cells and
\* sets the error status.
C23_ConflictsBlockSolve ==
  /\ [](findConflicts(readBoard) = Clashing(readBoard))
  /\ [][(abortController = 0 /\ inputCells' = inputCells /\ ClickSolve) =>
          LET conflicts == Clashing(readBoard)
          IN conflicts # {} =>
               /\ fetches' = fetches
               /\ abortController' = abortController
               /\ solutionCells' = solutionCells
               /\ solveBtn' = solveBtn
               /\ clearBtn' = clearBtn
               /\ inputDisabled' = inputDisabled
               /\ errorCells' = conflicts
               /\ statusEl' = ConflictStatus]_vars

\* A Solve click was refused for a board whose row 0 holds the same value
\* three times, with a solution of an earlier request on display.
C23_Witness ==
  /\ statusEl = ConflictStatus
  /\ errorCells = Clashing(readBoard)
  /\ {Idx(0, 0), Idx(0, 4), Idx(0, 8)} \subseteq errorCells
  /\ solutionCells # EmptyGrid

(***************************************************************************)
(* The boolean demo.                                                       *)
(***************************************************************************)
\* Exactly one of the named variables is true under m.
OneTrue(m, names) == Cardinality({ n \in names : m[n] }) = 1

\* The assignments of a..i that satisfy the five exactly-one constraints.
Satisfying ==
  { m \in [{"a", "b", "c", "d", "e", "f", "g", "h", "i"} -> BOOLEAN] :
      /\ OneTrue(m, {"a", "b", "c"})
      /\ OneTrue(m, {"a", "d"})
      /\ OneTrue(m, {"c", "e", "f"})
      /\ OneTrue(m, {"g", "h"})
      /\ OneTrue(m, {"g", "i"}) }

\* The values of a..i, in this order, as the loop prints them.
ReportedAs(m) == << m["a"], m["b"], m["c"], m["d"], m["e"], m["f"], m["g"], m["h"], m["i"] >>

\* No assignment has been printed twice.
NoneTwice == \A values \in DOMAIN consoleLog : consoleLog[values] = 1

\* Every satisfying assignment has been printed, nothing else has, and the
\* count is their number, 10.
AllReported ==
  /\ DOMAIN consoleLog = { ReportedAs(m) : m \in Satisfying }
  /\ solutionCount = Cardinality(Satisfying)
  /\ solutionCount = 10

====
